---------------------------- MODULE Spec2Model ----------------------------
(***************************************************************************)
(* The streaming tool-call orchestrator of backend/agent.py                *)
(* (StreamingAgent.chat_stream and the generators it drives) together with *)
(* the SSE endpoint of backend/app.py that serves its events.              *)
(*                                                                         *)
(* Text is modelled as a sequence of one-character strings.  The model     *)
(* transport and the tool bodies are the environment: every chunk, every   *)
(* transport failure and every tool outcome is a nondeterministic input.   *)
(***************************************************************************)
EXTENDS Integers, Sequences, FiniteSets, TLC

(***************************************************************************)
(* Bounds of the model.                                                    *)
(***************************************************************************)
\* turns run on the one agent
MaxTurns == 2
\* deltas the transport delivers over all streams of a run
MaxDeltas == 2
\* calls in one batch handed to _execute_tools_parallel/_sequential
MaxBatch == 2
\* chat requests the server has in hand at a time
MaxRequests == 2
\* fragments an argument buffer handed to _is_json_complete is made of
MaxFragments == 5

\* __init__: the default of max_parallel_tools
DefaultMaxParallelTools == 5

(***************************************************************************)
(* JSON text over the characters the transport may send.                   *)
(***************************************************************************)
Quote == "\""
Whitespace == {" "}
Digits == {"1"}

\* json.decoder WHITESPACE.match(s, i).end(): first position >= i that
\* holds no whitespace (Len(s)+1 when the text is exhausted)
RECURSIVE SkipWs(_, _)
SkipWs(s, i) ==
  IF i <= Len(s) /\ s[i] \in Whitespace THEN SkipWs(s, i + 1) ELSE i

\* py_scanstring from the position after the opening quote: the position
\* after the closing quote, 0 when the string is unterminated
RECURSIVE ScanString(_, _)
ScanString(s, i) ==
  IF i > Len(s) THEN 0
  ELSE IF s[i] = Quote THEN i + 1
  ELSE ScanString(s, i + 1)

\* NUMBER_RE.match from a digit: the position after the last digit
RECURSIVE ScanNumber(_, _)
ScanNumber(s, i) ==
  IF i <= Len(s) /\ s[i] \in Digits THEN ScanNumber(s, i + 1) ELSE i

\* scan_once / JSONObject: the position after the value that starts at i,
\* 0 when no value starts there ("Expecting value", "Expecting ':'",
\* "Expecting property name", "Expecting ',' delimiter")
RECURSIVE ScanValue(_, _)
ScanValue(s, i) ==
  IF i > Len(s) THEN 0
  ELSE IF s[i] = Quote THEN ScanString(s, i + 1)
  ELSE IF s[i] \in Digits THEN ScanNumber(s, i)
  ELSE IF s[i] = "{" THEN
    LET j == SkipWs(s, i + 1) IN
    IF j > Len(s) THEN 0
    ELSE IF s[j] = "}" THEN j + 1
    ELSE IF s[j] # Quote THEN 0
    ELSE
      LET k == ScanString(s, j + 1) IN
      IF k = 0 THEN 0
      ELSE
        LET c == SkipWs(s, k) IN
        IF c > Len(s) \/ s[c] # ":" THEN 0
        ELSE
          LET v == ScanValue(s, SkipWs(s, c + 1)) IN
          IF v = 0 THEN 0
          ELSE
            LET e == SkipWs(s, v) IN
            IF e <= Len(s) /\ s[e] = "}" THEN e + 1 ELSE 0
  ELSE 0

\* json.loads(s) succeeds: one value, whitespace around it, no extra data
JsonParses(s) ==
  LET e == ScanValue(s, SkipWs(s, 1)) IN
  e # 0 /\ SkipWs(s, e) = Len(s) + 1

\* str.strip() leaves nothing
IsBlank(s) == \A i \in 1 .. Len(s) : s[i] \in Whitespace

\* the value json.loads(s) returns, for a text that parses: its token
\* sequence, i.e. the text without the whitespace outside of strings
RECURSIVE Tokens(_, _, _)
Tokens(s, i, inStr) ==
  IF i > Len(s) THEN << >>
  ELSE IF s[i] = Quote THEN <<s[i]>> \o Tokens(s, i + 1, ~inStr)
  ELSE IF ~inStr /\ s[i] \in Whitespace THEN Tokens(s, i + 1, inStr)
  ELSE <<s[i]>> \o Tokens(s, i + 1, inStr)

JsonLoads(s) == Tokens(s, 1, FALSE)

\* the parsed value is a mapping (a dict), as func(**arguments) needs
IsMapping(v) == Len(v) > 0 /\ v[1] = "{"

\* a value at the start of the text is enough, whatever follows it
StartsWithJsonValue(json_str) == ScanValue(json_str, SkipWs(json_str, 1)) # 0

_is_json_complete(json_str) ==
  IF json_str = << >> \/ IsBlank(json_str) THEN FALSE
  ELSE JsonParses(json_str)


(***************************************************************************)
(* The inputs of the environment.                                          *)
(***************************************************************************)
\* slot indices the transport uses
Slots == {0, 1}
\* ids the transport gives to tool calls ("" : the delta carries no id)
Ids == {"a", "b"}
\* function names a delta may carry ("" : the delta carries no name)
Names == {"search_web"}
\* argument fragments a delta may carry (<< >> : no arguments in the delta)
ArgFragments == {<< >>, <<"{">>, <<"}">>, <<"{", "}">>}
\* the user messages
Messages == {<<"hi">>}
\* self.instructions
Instructions == <<"sys">>
\* self.tool_functions after add_tool (app.py registers search_web)
tool_functions == {"search_web"}

ToolCallDeltas ==
  [index : Slots, id : Ids \cup {""}, name : Names \cup {""},
   arguments : ArgFragments]

\* the text of a content fragment that is the n-th delta of a turn: each
\* fragment has its own text, so that order and origin stay visible
ContentOf(n) == <<ToString(n)>>

(***************************************************************************)
(* Messages of the conversation history and events, as records.  A key a   *)
(* python dict does not have is the empty value here.                      *)
(***************************************************************************)
Message(role, content) ==
  [role |-> role, content |-> content, tool_calls |-> << >>,
   tool_call_id |-> ""]
\* the assistant message carries the first call of the list only
AssistantFirstCallOnly(content, calls) ==
  [role |-> "assistant", content |-> content,
   tool_calls |-> SubSeq(calls, 1, 1), tool_call_id |-> ""]
AssistantToolCalls(content, calls) ==
  [role |-> "assistant", content |-> content, tool_calls |-> calls,
   tool_call_id |-> ""]
ToolMessage(id, result) ==
  [role |-> "tool", content |-> result, tool_calls |-> << >>,
   tool_call_id |-> id]

NoValue == << >>
Event(type, at) ==
  [event_type |-> type, id |-> "", function |-> "", arguments |-> NoValue,
   result |-> "", success |-> FALSE, content |-> << >>, count |-> 0,
   at |-> at]
ContentEvent(text, at) == [Event("content", at) EXCEPT !.content = text]
ToolCallEvent(id, name, args, at) ==
  [Event("tool_call", at) EXCEPT !.id = id, !.function = name,
                                 !.arguments = args]
\* the tool_result event does not say which call it is the result of
ToolResultEventWithoutId(id, result, success, at) ==
  [Event("tool_result", at) EXCEPT !.result = result, !.success = success]
ToolResultEvent(id, result, success, at) ==
  [Event("tool_result", at) EXCEPT !.id = id, !.result = result,
                                   !.success = success]

(***************************************************************************)
(* StreamingAgent._execute_tool and _call_tool_with_fall_back.             *)
(***************************************************************************)
\* the tool body is entered: the name is registered, the arguments parse
\* and are a mapping (func(**arguments) raises TypeError otherwise)
ToolBodyInvoked(call) ==
  LET arguments_str ==
        IF call.arguments = << >> THEN <<"{", "}">> ELSE call.arguments
  IN /\ call.name # ""
     /\ JsonParses(arguments_str)
     /\ call.name \in tool_functions
     /\ IsMapping(JsonLoads(arguments_str))

\* the (result, success) pairs _execute_tool can return for a call
ExecuteToolOutcomes(call) ==
  LET arguments_str ==
        IF call.arguments = << >> THEN <<"{", "}">> ELSE call.arguments
  IN IF call.name = ""
       THEN {[result |-> "Error: Tool call missing function name",
              success |-> FALSE]}
     ELSE IF ~JsonParses(arguments_str)
       THEN {[result |-> "Error: Invalid arguments", success |-> FALSE]}
     ELSE IF call.name \notin tool_functions
       THEN {[result |-> "Error: Unknown function", success |-> FALSE]}
     ELSE IF ~IsMapping(JsonLoads(arguments_str))
       THEN {[result |-> "Error: Invalid arguments", success |-> FALSE]}
     ELSE {[result |-> "ok", success |-> TRUE],
           [result |-> "Error: Invalid arguments", success |-> FALSE],
           [result |-> "Error executing", success |-> FALSE]}

(***************************************************************************)
(* StreamingAgent._prepare_conversation.                                   *)
(***************************************************************************)
\* the system message is added on a reset only, not on an empty log
prepare_system_on_reset_only(history, message, reset_history) ==
  LET h0 == IF reset_history THEN <<Message("system", Instructions)>>
            ELSE history
  IN Append(h0, Message("user", message))

\* the log is started afresh on every turn
prepare_always_fresh(history, message, reset_history) ==
  <<Message("system", Instructions), Message("user", message)>>

\* reset_history is not looked at
prepare_keeping_history(history, message, reset_history) ==
  Append(IF history = << >> THEN <<Message("system", Instructions)>>
         ELSE history,
         Message("user", message))

\* the system message is appended on every turn
prepare_system_every_turn(history, message, reset_history) ==
  (IF reset_history THEN << >> ELSE history)
    \o <<Message("system", Instructions), Message("user", message)>>

_prepare_conversation(history, message, reset_history) ==
  LET h0 == IF reset_history THEN << >> ELSE history
      h1 == IF h0 = << >> THEN <<Message("system", Instructions)>> ELSE h0
  IN Append(h1, Message("user", message))

(***************************************************************************)
(* The Incremental Call Assembler inside StreamingAgent._call_llm.         *)
(***************************************************************************)
EmptyCall == [id |-> "", type |-> "function", name |-> "", arguments |-> << >>]
NoCalls == [i \in {} |-> EmptyCall]

\* the slot's entry is replaced by what the delta carries
MergeDeltaOverwriting(by_index, d) ==
  [i \in DOMAIN by_index \cup {d.index} |->
     IF i = d.index
       THEN [id |-> d.id, type |-> "function", name |-> d.name,
             arguments |-> d.arguments]
     ELSE by_index[i]]

\* lines 263-285: create the slot's entry, merge id and name on non-empty,
\* append the arguments
MergeDelta(by_index, d) ==
  LET old == IF d.index \in DOMAIN by_index THEN by_index[d.index]
             ELSE EmptyCall
      new == [id |-> IF d.id # "" THEN d.id ELSE old.id,
              type |-> old.type,
              name |-> IF d.name # "" THEN d.name ELSE old.name,
              arguments |-> old.arguments \o d.arguments]
  IN [i \in DOMAIN by_index \cup {d.index} |->
        IF i = d.index THEN new ELSE by_index[i]]

\* lines 290-292: the call has id, name and complete arguments
CallComplete(tool_call) ==
  /\ tool_call.id # ""
  /\ tool_call.name # ""
  /\ _is_json_complete(tool_call.arguments)

\* the slot is dispatched whenever its call is complete, dispatched or not
ReadyIgnoringExecuted(by_index, executed, index) ==
  CallComplete(by_index[index])

\* the slot is dispatched without an id
ReadyWithoutId(by_index, executed, index) ==
  /\ index \notin executed
  /\ by_index[index].name # ""
  /\ _is_json_complete(by_index[index].arguments)

\* lines 289-292: the condition under which the slot is dispatched now
\* the slot is dispatched without a function name
ReadyWithoutName(by_index, executed, index) ==
  /\ index \notin executed
  /\ by_index[index].id # ""
  /\ _is_json_complete(by_index[index].arguments)

ReadyToExecute(by_index, executed, index) ==
  /\ index \notin executed
  /\ CallComplete(by_index[index])

\* sorted(tool_calls_by_index.keys())
RECURSIVE SortedKeys(_)
SortedKeys(S) ==
  IF S = {} THEN << >>
  ELSE LET m == CHOOSE x \in S : \A y \in S : x <= y
       IN <<m>> \o SortedKeys(S \ {m})

\* a call with a name is kept, with or without arguments
NamedCall(tc) == tc.name # ""

\* lines 330-333: the filter of the final call list
IsValidCall(tc) == tc.name # "" /\ tc.arguments # << >>

RECURSIVE FilterSeq(_, _)
FilterSeq(keys, by_index) ==
  IF keys = << >> THEN << >>
  ELSE LET rest == FilterSeq(Tail(keys), by_index)
       IN IF IsValidCall(by_index[Head(keys)]) THEN <<Head(keys)>> \o rest
          ELSE rest

\* the slots of the final call list, in list order
ValidSlots(by_index) == FilterSeq(SortedKeys(DOMAIN by_index), by_index)
\* lines 326-333: valid_tool_calls
ValidToolCalls(by_index) ==
  LET ks == ValidSlots(by_index) IN [j \in 1 .. Len(ks) |-> by_index[ks[j]]]

\* content events overtake the events sent before them
YieldContentFirst(evs, ev) ==
  IF ev.event_type = "content" THEN <<ev>> \o evs ELSE Append(evs, ev)

\* content events are held back and never sent
YieldContentWithheld(evs, ev) ==
  IF ev.event_type = "content" THEN evs ELSE Append(evs, ev)

\* a yield of the generators (agent.py lines 253, 297, 312, 386, 398, 439),
\* relayed by event_stream (app.py line 171): the event is sent at once
Yield(evs, ev) == Append(evs, ev)

(***************************************************************************)
(* app.py, stream_chat.event_stream: what it adds to the events it relays. *)
(***************************************************************************)
\* lines 163-164: full_response
RECURSIVE FullResponse(_)
FullResponse(evs) ==
  IF evs = << >> THEN << >>
  ELSE (IF Head(evs).event_type = "content" THEN Head(evs).content
        ELSE << >>) \o FullResponse(Tail(evs))

\* lines 165-166: tool_calls_count
ToolCallsCount(evs) ==
  Cardinality({i \in 1 .. Len(evs) : evs[i].event_type = "tool_call"})

\* lines 174-177
ChatCompleteEvent(evs, at) ==
  [Event("chat_complete", at) EXCEPT !.content = FullResponse(evs),
                                     !.count = ToolCallsCount(evs)]
\* lines 184-187
ErrorEvent(at) == [Event("error", at) EXCEPT !.result = "STREAM_ERROR"]

\* nothing is sent once chat_stream is exhausted
OnCompletionSilent(evs, at) == << >>

\* lines 173-178: what is sent once chat_stream is exhausted
OnCompletion(evs, at) == <<ChatCompleteEvent(evs, at)>>
\* the completion event is sent after the error event as well
OnExceptionThenCompletion(evs, at) ==
  <<ErrorEvent(at), ChatCompleteEvent(evs, at)>>

\* lines 182-188: what is sent once chat_stream has raised
OnException(evs, at) == <<ErrorEvent(at)>>

(***************************************************************************)
(* State.                                                                  *)
(***************************************************************************)
VARIABLES
  pc,                    \* where chat_stream (and event_stream around it) is
  conversation_history,  \* self.conversation_history
  tool_calls_by_index,   \* _call_llm: slot index -> assembled call
  executed_tool_calls,   \* _call_llm: slots dispatched during streaming
  tool_results,          \* _call_llm: id -> (result, success)
  full_content,          \* _call_llm: content of the initial stream
  valid_tool_calls,      \* the final call list handed to _submit_tool_results
  drain_i,               \* _submit_tool_results: position of the for loop
  final_content,         \* _submit_tool_results: content of the final stream
  awaited,               \* the tool call being awaited, or NoAwait
  events,                \* what event_stream has sent for this request
  turns,                 \* turns started
  deltas,                \* deltas delivered in the run
  deltaNo,               \* deltas delivered in this turn
  executions,            \* history: the calls handed to _execute_tool
  firstComplete,         \* history: slot -> the delta after which it was
                         \* first complete
  turnStart,             \* history: the log and the request at turn start
  historyAtRaise,        \* history: the log when the transport failed
  streamsOpened,         \* history: model streams the turn has asked for
  inputs,                \* history: what the transport and the tools did in
                         \* this turn, in order
  previous,              \* history: the turn before this one, once remembered
  remembering,           \* whether inputs and previous are kept at all
  max_parallel_tools,    \* self.max_parallel_tools
  sync_tools,            \* the registered tools that are not coroutine
                         \* functions
  batch_pc,              \* where _execute_tools_parallel/_sequential is
  batch_mode,            \* which of the two runs
  batch_calls,           \* its argument tool_calls
  tasks,                 \* one _execute_tool coroutine per call
  finished,              \* history: the calls in the order they completed
  batch_results,         \* the list it returns
  agents,                \* app.py: the names in the agents dictionary
  requests,              \* app.py: the chat requests being served
  coturns,               \* the turns of two requests on one agent, each at
                         \* the await it is suspended at
  authors,               \* for each message of their log, the request
                         \* whose turn appended it
  json_str,              \* _is_json_complete: an argument buffer
  fragments,             \* the fragments it was made of
  asked,                 \* whether _is_json_complete was called on it
  answer                 \* what it returned

locals ==
  <<tool_calls_by_index, executed_tool_calls, tool_results, full_content,
    valid_tool_calls, drain_i, final_content, awaited>>
counters == <<turns, deltas, deltaNo>>
ghosts ==
  <<executions, firstComplete, turnStart, historyAtRaise, streamsOpened,
    inputs>>
turnVars ==
  <<pc, conversation_history, locals, events, counters, ghosts, previous,
    remembering>>
batchVars ==
  <<max_parallel_tools, sync_tools, batch_pc, batch_mode, batch_calls, tasks, finished,
    batch_results>>
serverVars == <<agents, requests, coturns, authors>>
jsonVars == <<json_str, fragments, asked, answer>>
vars == <<turnVars, batchVars, serverVars, jsonVars>>

\* a step of a turn touches neither a batch nor the server's tables
TurnFrame ==
  UNCHANGED <<batchVars, serverVars, jsonVars, previous, remembering>>

NoAwait == [index |-> -1, call |-> EmptyCall, hangs |-> FALSE]
NoResults == [i \in {} |-> [result |-> "", success |-> FALSE]]
NoCompletions == [i \in {} |-> 0]
NoTurn ==
  [log |-> << >>, reset_history |-> FALSE, parallel_tools |-> FALSE,
   message |-> << >>]
NoDelta == [index |-> -1, id |-> "", name |-> "", arguments |-> << >>]
\* one thing the transport or a tool did: the stream opened, delivered a
\* content fragment or a tool-call delta, ended or raised; a tool was entered
\* (and hangs or not) or returned
Input(kind) ==
  [kind |-> kind, delta |-> NoDelta, hangs |-> FALSE, result |-> "",
   success |-> FALSE]
Recorded(input) == IF remembering THEN Append(inputs, input) ELSE inputs
NoPrevious ==
  [known |-> FALSE, message |-> << >>, inputs |-> << >>, events |-> << >>,
   log |-> << >>]

InitTurn ==
  /\ pc = "idle"
  /\ conversation_history = << >>
  /\ tool_calls_by_index = NoCalls
  /\ executed_tool_calls = {}
  /\ tool_results = NoResults
  /\ full_content = << >>
  /\ valid_tool_calls = << >>
  /\ drain_i = 0
  /\ final_content = << >>
  /\ awaited = NoAwait
  /\ events = << >>
  /\ turns = 0
  /\ deltas = 0
  /\ deltaNo = 0
  /\ executions = << >>
  /\ firstComplete = NoCompletions
  /\ turnStart = NoTurn
  /\ historyAtRaise = << >>
  /\ streamsOpened = 0
  /\ inputs = << >>
  /\ previous = NoPrevious

\* the locals of the generators, as they are when no turn runs
ResetLocals ==
  /\ tool_calls_by_index' = NoCalls
  /\ executed_tool_calls' = {}
  /\ tool_results' = NoResults
  /\ full_content' = << >>
  /\ valid_tool_calls' = << >>
  /\ drain_i' = 0
  /\ final_content' = << >>
  /\ awaited' = NoAwait

(***************************************************************************)
(* chat_stream, lines 464-465: a request starts a turn.  parallel_tools is *)
(* a parameter of chat_stream that nothing in it reads.                    *)
(***************************************************************************)
StartTurn(message, reset_history, parallel_tools) ==
  /\ pc = "idle"
  /\ turns < MaxTurns
  /\ conversation_history' =
       _prepare_conversation(conversation_history, message, reset_history)
  /\ pc' = "open_initial"
  /\ turns' = turns + 1
  /\ turnStart' = [log |-> conversation_history,
                   reset_history |-> reset_history,
                   parallel_tools |-> parallel_tools, message |-> message]
  /\ UNCHANGED <<locals, events, deltas, deltaNo, executions, firstComplete,
                 historyAtRaise, streamsOpened, inputs>>
  /\ TurnFrame

\* _call_llm line 240: the transport opens the initial stream
InitialStreamOpened ==
  /\ pc = "open_initial"
  /\ pc' = "streaming"
  /\ streamsOpened' = streamsOpened + 1
  /\ inputs' = Recorded(Input("opened"))
  /\ UNCHANGED <<conversation_history, locals, events, counters, executions,
                 firstComplete, turnStart, historyAtRaise>>
  /\ TurnFrame

\* a transport failure leaves chat_stream as an exception: nothing in
\* _call_llm, _submit_tool_results or chat_stream catches it; event_stream
\* (app.py, lines 182-188) does
Raise ==
  /\ pc' = "failed"
  /\ events' = events \o OnException(events, deltaNo)
  /\ historyAtRaise' = conversation_history
  /\ inputs' = Recorded(Input("raise"))
  /\ ResetLocals
  /\ streamsOpened' =
       IF pc \in {"open_initial", "draining"} THEN streamsOpened + 1
       ELSE streamsOpened
  /\ UNCHANGED <<conversation_history, counters, executions, firstComplete,
                 turnStart>>
  /\ TurnFrame

\* chat_stream is exhausted: event_stream (app.py, lines 173-178) leaves
\* its loop
Return ==
  /\ pc' = "completed"
  /\ events' = events \o OnCompletion(events, deltaNo)
  /\ inputs' = Recorded(Input("end"))
  /\ ResetLocals
  /\ UNCHANGED <<counters, executions, firstComplete, turnStart,
                 historyAtRaise, streamsOpened>>
  /\ TurnFrame

\* the response is over: what belonged to the request is gone
RequestDone ==
  /\ pc \in {"completed", "failed"}
  /\ pc' = "idle"
  /\ events' = << >>
  /\ deltaNo' = 0
  /\ executions' = << >>
  /\ firstComplete' = NoCompletions
  /\ turnStart' = NoTurn
  /\ historyAtRaise' = << >>
  /\ streamsOpened' = 0
  /\ inputs' = << >>
  /\ UNCHANGED <<conversation_history, locals, turns, deltas>>
  /\ TurnFrame

\* line 240: client.chat.completions.create raises
InitialStreamOpenFails ==
  /\ pc = "open_initial"
  /\ Raise

\* line 248: reading the initial stream raises
InitialStreamFails ==
  /\ pc = "streaming"
  /\ Raise

(***************************************************************************)
(* _call_tool_with_fall_back is entered for a call: the call is recorded,  *)
(* and the tool body, if it is entered at all, may never return (nothing   *)
(* on this path applies tool_call_timeout).                                *)
(***************************************************************************)
Dispatch(index, call, phase, at, input) ==
  /\ executions' = Append(executions,
                          [index |-> index, phase |-> phase, at |-> at,
                           call |-> call])
  /\ \E hangs \in BOOLEAN :
       /\ hangs => ToolBodyInvoked(call)
       /\ awaited' = [index |-> index, call |-> call, hangs |-> hangs]
       /\ inputs' = Recorded([input EXCEPT !.hangs = hangs])

(***************************************************************************)
(* _call_llm, lines 248-324: the initial stream, delta by delta.  A chunk  *)
(* that carries a content fragment and tool-call deltas is handled as its  *)
(* content followed by its tool-call deltas in order, which is how the     *)
(* loop body treats it; so the stream is taken as that sequence of deltas. *)
(***************************************************************************)
\* lines 249-256: a content fragment
RecvContent ==
  LET at == deltaNo + 1 IN
  /\ pc = "streaming"
  /\ deltas < MaxDeltas
  /\ deltas' = deltas + 1
  /\ deltaNo' = at
  /\ full_content' = full_content \o ContentOf(at)
  /\ events' = Yield(events, ContentEvent(ContentOf(at), at))
  /\ inputs' = Recorded(Input("content"))
  /\ UNCHANGED <<pc, conversation_history, tool_calls_by_index,
                 executed_tool_calls, tool_results, valid_tool_calls, drain_i,
                 final_content, awaited, turns, executions, firstComplete,
                 turnStart, historyAtRaise, streamsOpened>>
  /\ TurnFrame

\* lines 259-309: a tool-call delta
RecvToolCallDelta(d) ==
  LET at == deltaNo + 1
      merged == MergeDelta(tool_calls_by_index, d)
      tool_call == merged[d.index]
      input == [Input("delta") EXCEPT !.delta = d]
  IN
  /\ pc = "streaming"
  /\ deltas < MaxDeltas
  /\ deltas' = deltas + 1
  /\ deltaNo' = at
  /\ tool_calls_by_index' = merged
  /\ firstComplete' =
       IF CallComplete(tool_call) /\ d.index \notin DOMAIN firstComplete
         THEN [i \in DOMAIN firstComplete \cup {d.index} |->
                 IF i = d.index THEN at ELSE firstComplete[i]]
       ELSE firstComplete
  /\ IF ReadyToExecute(merged, executed_tool_calls, d.index)
       THEN /\ events' = Yield(events,
                                ToolCallEvent(tool_call.id, tool_call.name,
                                              JsonLoads(tool_call.arguments),
                                              at))
            /\ Dispatch(d.index, tool_call, "streaming", at, input)
            /\ pc' = "eager_exec"
       ELSE /\ inputs' = Recorded(input)
            /\ UNCHANGED <<events, awaited, executions, pc>>
  /\ UNCHANGED <<conversation_history, turns, turnStart,
                 historyAtRaise, streamsOpened, executed_tool_calls,
                 tool_results,
                 full_content, valid_tool_calls, drain_i, final_content>>
  /\ TurnFrame

\* the result of an eagerly dispatched tool is appended to the log at once
EagerToolReturnsLogged ==
  /\ pc = "eager_exec"
  /\ ~awaited.hangs
  /\ \E r \in ExecuteToolOutcomes(awaited.call) :
       /\ tool_results' =
            [i \in DOMAIN tool_results \cup {awaited.call.id} |->
               IF i = awaited.call.id THEN r ELSE tool_results[i]]
       /\ conversation_history' =
            Append(conversation_history,
                   ToolMessage(awaited.call.id, r.result))
       /\ events' = Yield(events,
                           ToolResultEvent(awaited.call.id, r.result,
                                           r.success, deltaNo))
       /\ inputs' = Recorded([Input("return") EXCEPT !.result = r.result,
                                             !.success = r.success])
  /\ executed_tool_calls' = executed_tool_calls \cup {awaited.index}
  /\ awaited' = NoAwait
  /\ pc' = "streaming"
  /\ UNCHANGED <<tool_calls_by_index, full_content,
                 valid_tool_calls, drain_i, final_content, counters,
                 executions, firstComplete, turnStart, historyAtRaise,
                 streamsOpened>>
  /\ TurnFrame

\* lines 307-319: the eagerly dispatched tool returns
EagerToolReturns ==
  /\ pc = "eager_exec"
  /\ ~awaited.hangs
  /\ \E r \in ExecuteToolOutcomes(awaited.call) :
       /\ tool_results' =
            [i \in DOMAIN tool_results \cup {awaited.call.id} |->
               IF i = awaited.call.id THEN r ELSE tool_results[i]]
       /\ events' = Yield(events,
                           ToolResultEvent(awaited.call.id, r.result,
                                           r.success, deltaNo))
       /\ inputs' = Recorded([Input("return") EXCEPT !.result = r.result,
                                             !.success = r.success])
  /\ executed_tool_calls' = executed_tool_calls \cup {awaited.index}
  /\ awaited' = NoAwait
  /\ pc' = "streaming"
  /\ UNCHANGED <<conversation_history, tool_calls_by_index, full_content,
                 valid_tool_calls, drain_i, final_content, counters,
                 executions, firstComplete, turnStart, historyAtRaise,
                 streamsOpened>>
  /\ TurnFrame

\* lines 326-336 and chat_stream 472-490: the initial stream ends
StreamEnds ==
  /\ pc = "streaming"
  /\ LET calls == ValidToolCalls(tool_calls_by_index) IN
     IF calls # << >>
       THEN \* _submit_tool_results, lines 363-368
            /\ conversation_history' =
                 Append(conversation_history,
                        AssistantToolCalls(full_content, calls))
            /\ valid_tool_calls' = calls
            /\ drain_i' = 1
            /\ pc' = "draining"
            /\ inputs' = Recorded(Input("end"))
            /\ UNCHANGED <<tool_calls_by_index, executed_tool_calls,
                           tool_results, full_content, final_content, awaited,
                           events, counters, executions, firstComplete,
                           turnStart, historyAtRaise, streamsOpened>>
            /\ TurnFrame
       ELSE \* chat_stream, lines 485-490
            /\ conversation_history' =
                 Append(conversation_history,
                        Message("assistant", full_content))
            /\ Return

(***************************************************************************)
(* _submit_tool_results, lines 370-417: the loop over the final call list. *)
(***************************************************************************)
\* lines 381-384: the arguments shown in the tool_call event
EventArguments(arguments) ==
  IF JsonParses(arguments) THEN JsonLoads(arguments) ELSE arguments

\* no result is ever found in the cache
NeverCached(results, tool_call_id) == FALSE

\* line 373: tool_call_id in tool_results
IsCached(results, tool_call_id) == tool_call_id \in DOMAIN results

\* the call's result is cached (line 373): its tool message is appended
DrainCached ==
  /\ pc = "draining"
  /\ drain_i <= Len(valid_tool_calls)
  /\ LET tc == valid_tool_calls[drain_i] IN
     /\ IsCached(tool_results, tc.id)
     /\ conversation_history' =
          Append(conversation_history,
                 ToolMessage(tc.id, tool_results[tc.id].result))
  /\ drain_i' = drain_i + 1
  /\ UNCHANGED <<pc, tool_calls_by_index, executed_tool_calls, tool_results,
                 full_content, valid_tool_calls, final_content, awaited,
                 events, counters, ghosts>>
  /\ TurnFrame

\* no result is cached for the call's id (lines 376-395): it is executed
DrainDispatch ==
  /\ pc = "draining"
  /\ drain_i <= Len(valid_tool_calls)
  /\ LET tc == valid_tool_calls[drain_i] IN
     /\ ~IsCached(tool_results, tc.id)
     /\ events' = Yield(events,
                         ToolCallEvent(tc.id, tc.name,
                                       EventArguments(tc.arguments), deltaNo))
     /\ Dispatch(ValidSlots(tool_calls_by_index)[drain_i], tc, "draining",
                 deltaNo, Input("call"))
  /\ pc' = "drain_exec"
  /\ UNCHANGED <<conversation_history, tool_calls_by_index,
                 executed_tool_calls, tool_results, full_content,
                 valid_tool_calls, drain_i, final_content, counters,
                 firstComplete, turnStart, historyAtRaise, streamsOpened>>
  /\ TurnFrame

\* lines 395-417: the tool returns, its tool message is appended
DrainToolReturns ==
  /\ pc = "drain_exec"
  /\ ~awaited.hangs
  /\ \E r \in ExecuteToolOutcomes(awaited.call) :
       /\ events' = Yield(events,
                           ToolResultEvent(awaited.call.id, r.result,
                                           r.success, deltaNo))
       /\ conversation_history' =
            Append(conversation_history,
                   ToolMessage(awaited.call.id, r.result))
       /\ inputs' = Recorded([Input("return") EXCEPT !.result = r.result,
                                             !.success = r.success])
  /\ drain_i' = drain_i + 1
  /\ awaited' = NoAwait
  /\ pc' = "draining"
  /\ UNCHANGED <<tool_calls_by_index, executed_tool_calls, tool_results,
                 full_content, valid_tool_calls, final_content, counters,
                 executions, firstComplete, turnStart, historyAtRaise,
                 streamsOpened>>
  /\ TurnFrame

\* the loop is over: every call of the list has its tool message
Drained == pc = "draining" /\ drain_i > Len(valid_tool_calls)

(***************************************************************************)
(* _submit_tool_results, lines 419-448: the final stream.                  *)
(***************************************************************************)
FinalStreamOpened ==
  /\ Drained
  /\ pc' = "final_streaming"
  /\ streamsOpened' = streamsOpened + 1
  /\ inputs' = Recorded(Input("opened"))
  /\ UNCHANGED <<conversation_history, locals, events, counters, executions,
                 firstComplete, turnStart, historyAtRaise>>
  /\ TurnFrame

\* line 431: client.chat.completions.create raises
FinalStreamOpenFails ==
  /\ Drained
  /\ Raise

\* lines 434-442: a content fragment of the final stream
FinalContent ==
  LET at == deltaNo + 1 IN
  /\ pc = "final_streaming"
  /\ deltas < MaxDeltas
  /\ deltas' = deltas + 1
  /\ deltaNo' = at
  /\ final_content' = final_content \o ContentOf(at)
  /\ events' = Yield(events, ContentEvent(ContentOf(at), at))
  /\ inputs' = Recorded(Input("content"))
  /\ UNCHANGED <<pc, conversation_history, tool_calls_by_index,
                 executed_tool_calls, tool_results, full_content,
                 valid_tool_calls, drain_i, awaited, turns, executions,
                 firstComplete, turnStart, historyAtRaise, streamsOpened>>
  /\ TurnFrame

\* a tool-call delta of the final stream is assembled like one of the
\* initial stream
FinalToolCallDeltaAssembled(d) ==
  /\ pc = "final_streaming"
  /\ deltas < MaxDeltas
  /\ deltas' = deltas + 1
  /\ deltaNo' = deltaNo + 1
  /\ tool_calls_by_index' = MergeDelta(tool_calls_by_index, d)
  /\ inputs' = Recorded([Input("delta") EXCEPT !.delta = d])
  /\ UNCHANGED <<pc, conversation_history, executed_tool_calls, tool_results,
                 full_content, valid_tool_calls, drain_i, final_content,
                 awaited, events, turns, executions, firstComplete, turnStart,
                 historyAtRaise, streamsOpened>>
  /\ TurnFrame

\* lines 434-435: a tool-call delta of the final stream is not looked at
FinalToolCallDelta(d) ==
  /\ pc = "final_streaming"
  /\ deltas < MaxDeltas
  /\ deltas' = deltas + 1
  /\ deltaNo' = deltaNo + 1
  /\ inputs' = Recorded([Input("delta") EXCEPT !.delta = d])
  /\ UNCHANGED <<pc, conversation_history, locals, events, turns, executions,
                 firstComplete, turnStart, historyAtRaise, streamsOpened>>
  /\ TurnFrame

\* line 434: reading the final stream raises
FinalStreamFails ==
  /\ pc = "final_streaming"
  /\ Raise

\* lines 444-448: the final stream ends
FinalStreamEnds ==
  /\ pc = "final_streaming"
  /\ conversation_history' =
       Append(conversation_history, Message("assistant", final_content))
  /\ Return

(***************************************************************************)
(* _execute_tools_parallel and _execute_tools_sequential: a batch of tool  *)
(* calls.  Each call is one _execute_tool coroutine; the time a tool body   *)
(* takes is the environment's, and so is whether it returns at all.        *)
(***************************************************************************)
BatchIds == {"a", "b"}
\* "foo" is not registered; "" is a call without a function name
BatchNames == {"search_web", "foo", ""}
BatchArguments == {<<"{", "}">>, <<"{">>}
\* the id of a call object that has no attribute id
NoId == "<no id>"
BatchCalls ==
  [id : BatchIds, type : {"function"}, name : BatchNames,
   arguments : BatchArguments]
Batches == UNION {[1 .. n -> BatchCalls] : n \in 0 .. MaxBatch}
\* calls with or without an id, with or without a function name
AnyCalls ==
  [id : BatchIds \cup {NoId}, type : {"function"}, name : {"search_web", ""},
   arguments : BatchArguments]
AnyBatches == UNION {[1 .. n -> AnyCalls] : n \in 0 .. MaxBatch}
Modes == {"parallel", "sequential"}
\* values max_parallel_tools is constructed with
ParallelLimits == {1, DefaultMaxParallelTools}

\* sync: the tool is not a coroutine function and its body runs in a thread
\* of the executor (line 119)
NewTask ==
  [state |-> "scheduled", invoked |-> FALSE, sync |-> FALSE, hangs |-> FALSE,
   result |-> "", success |-> FALSE]
NoTasks == << >>

\* the coroutines that have not returned
Outstanding(ts) ==
  {i \in DOMAIN ts : ts[i].state \in {"scheduled", "running"}}
\* the tool bodies that are executing
InFlight(ts) == {i \in DOMAIN ts : ts[i].state = "running"}
\* the tool bodies that go on in a thread of the executor after their
\* coroutine was cancelled
Abandoned(ts) == {i \in DOMAIN ts : ts[i].state = "abandoned"}

\* line 98: the id in the tuple _execute_tool returns
ExecuteToolId(call) == IF call.id = NoId THEN "unknown_tool_id" ELSE call.id
\* lines 165-168: the id in a timeout result; enumerate counts from 0
TimeoutId(call, i) ==
  IF call.id = NoId THEN "tool_" \o ToString(i - 1) ELSE call.id

\* the deadline passes while the gather is pending
DeadlineNever(ts) == FALSE

\* lines 142-145, 161: wait_for raises TimeoutError only if the gather has
\* not completed, that is while a coroutine is outstanding
DeadlineCanPass(ts) == Outstanding(ts) # {}

\* the results come in the order the calls completed
ResultsInCompletionOrder(calls, ts, order) ==
  [k \in 1 .. Len(order) |->
     [result |-> ts[order[k]].result, id |-> ExecuteToolId(calls[order[k]]),
      success |-> ts[order[k]].success]]

\* the batch stops at the first failed call
ResultsUntilFailure(calls, ts, order) ==
  LET failed == {i \in 1 .. Len(calls) : ~ts[i].success}
      n == IF failed = {} THEN Len(calls)
           ELSE CHOOSE i \in failed : \A j \in failed : i <= j
  IN [i \in 1 .. n |->
        [result |-> ts[i].result, id |-> ExecuteToolId(calls[i]),
         success |-> ts[i].success]]

\* lines 142-160 and 186-190: the tuples (result, tool_call_id, success) of
\* the coroutines, in the order of the calls (gather keeps the order of its
\* arguments; the sequential loop appends in turn)
ResultsInCallOrder(calls, ts, order) ==
  [i \in 1 .. Len(calls) |->
     [result |-> ts[i].result, id |-> ExecuteToolId(calls[i]),
      success |-> ts[i].success]]

\* every result of a timed out batch is identified by its position
TimeoutResultsByPosition(calls) ==
  [i \in 1 .. Len(calls) |->
     [result |-> "Timeout after", id |-> "tool_" \o ToString(i - 1),
      success |-> FALSE]]

\* lines 164-171: every call of the batch is reported as timed out
TimeoutResults(calls) ==
  [i \in 1 .. Len(calls) |->
     [result |-> "Timeout after", id |-> TimeoutId(calls[i], i),
      success |-> FALSE]]

\* a step of a batch touches neither a turn nor the server's tables
BatchFrame ==
  UNCHANGED <<turnVars, serverVars, jsonVars, max_parallel_tools, sync_tools>>

\* the caller awaits one of the two functions on a list of calls
StartBatch(calls, mode) ==
  /\ batch_pc = "idle"
  /\ batch_pc' = "running"
  /\ batch_mode' = mode
  /\ batch_calls' = calls
  /\ tasks' = [i \in 1 .. Len(calls) |-> NewTask]
  /\ finished' = << >>
  /\ batch_results' = << >>
  /\ BatchFrame

\* _execute_tool up to its await (lines 96-119): it returns an error at
\* once, or enters the tool body
TaskBegins(i) ==
  /\ tasks[i].state = "scheduled"
  /\ IF ToolBodyInvoked(batch_calls[i])
       THEN /\ \E hangs \in BOOLEAN :
                 tasks' = [tasks EXCEPT ![i].state = "running",
                                        ![i].invoked = TRUE,
                                        ![i].sync =
                                          batch_calls[i].name \in sync_tools,
                                        ![i].hangs = hangs]
            /\ UNCHANGED finished
       ELSE /\ \E r \in ExecuteToolOutcomes(batch_calls[i]) :
                 tasks' = [tasks EXCEPT ![i].state = "done",
                                        ![i].result = r.result,
                                        ![i].success = r.success]
            /\ finished' = Append(finished, i)

\* lines 116-125: the tool body returns or raises
TaskEnds(i) ==
  /\ tasks[i].state = "running"
  /\ ~tasks[i].hangs
  /\ \E r \in ExecuteToolOutcomes(batch_calls[i]) :
       tasks' = [tasks EXCEPT ![i].state = "done", ![i].result = r.result,
                              ![i].success = r.success]
  /\ finished' = Append(finished, i)

\* line 143: gather runs all the coroutines, whatever max_parallel_tools is
ParallelTaskBegins(i) ==
  /\ batch_pc = "running"
  /\ batch_mode = "parallel"
  /\ TaskBegins(i)
  /\ UNCHANGED <<batch_pc, batch_mode, batch_calls, batch_results>>
  /\ BatchFrame

ParallelTaskEnds(i) ==
  /\ batch_pc = "running"
  /\ batch_mode = "parallel"
  /\ TaskEnds(i)
  /\ UNCHANGED <<batch_pc, batch_mode, batch_calls, batch_results>>
  /\ BatchFrame

\* lines 142-160: the gather completes before the deadline
GatherReturns ==
  /\ batch_pc = "running"
  /\ batch_mode = "parallel"
  /\ Outstanding(tasks) = {}
  /\ batch_results' = ResultsInCallOrder(batch_calls, tasks, finished)
  /\ batch_pc' = "returned"
  /\ UNCHANGED <<batch_mode, batch_calls, tasks, finished>>
  /\ BatchFrame

\* the cancellation of a coroutine: one that awaits a coroutine function
\* (line 116) ends there; one that awaits run_in_executor (line 119) ends
\* too, but the thread that runs the tool body cannot be cancelled and goes
\* on
Cancelled(task) ==
  [task EXCEPT !.state = IF task.state = "running" /\ task.sync
                           THEN "abandoned"
                         ELSE "cancelled"]

\* lines 161-171: the deadline passes first; wait_for cancels the gather
\* and with it the coroutines that are outstanding
BatchTimeout ==
  /\ batch_pc = "running"
  /\ batch_mode = "parallel"
  /\ DeadlineCanPass(tasks)
  /\ tasks' = [i \in DOMAIN tasks |->
                 IF i \in Outstanding(tasks) THEN Cancelled(tasks[i])
                 ELSE tasks[i]]
  /\ batch_results' = TimeoutResults(batch_calls)
  /\ batch_pc' = "returned"
  /\ UNCHANGED <<batch_mode, batch_calls, finished>>
  /\ BatchFrame

\* line 119: the tool body of a cancelled coroutine returns in its thread;
\* nothing awaits its result
AbandonedToolEnds(i) ==
  /\ tasks[i].state = "abandoned"
  /\ ~tasks[i].hangs
  /\ tasks' = [tasks EXCEPT ![i].state = "cancelled"]
  /\ UNCHANGED <<batch_pc, batch_mode, batch_calls, batch_results, finished>>
  /\ BatchFrame

\* line 188: the loop awaits the next call's coroutine
SequentialCallBegins(i) ==
  /\ batch_pc = "running"
  /\ batch_mode = "sequential"
  /\ \A j \in 1 .. i - 1 : tasks[j].state = "done"
  /\ TaskBegins(i)
  /\ UNCHANGED <<batch_pc, batch_mode, batch_calls, batch_results>>
  /\ BatchFrame

SequentialCallEnds(i) ==
  /\ batch_pc = "running"
  /\ batch_mode = "sequential"
  /\ TaskEnds(i)
  /\ UNCHANGED <<batch_pc, batch_mode, batch_calls, batch_results>>
  /\ BatchFrame

\* line 190: the loop is over
SequentialReturns ==
  /\ batch_pc = "running"
  /\ batch_mode = "sequential"
  /\ Outstanding(tasks) = {}
  /\ batch_results' = ResultsInCallOrder(batch_calls, tasks, finished)
  /\ batch_pc' = "returned"
  /\ UNCHANGED <<batch_mode, batch_calls, tasks, finished>>
  /\ BatchFrame

\* the caller has the list: the batch is over
BatchDone ==
  /\ batch_pc = "returned"
  /\ batch_pc' = "idle"
  /\ batch_mode' = "sequential"
  /\ batch_calls' = << >>
  /\ tasks' = NoTasks
  /\ finished' = << >>
  /\ batch_results' = << >>
  /\ BatchFrame

(***************************************************************************)
(* app.py: the chat endpoints.  A request names an agent; the handler      *)
(* looks it up in agents and iterates that agent's chat_stream.            *)
(***************************************************************************)
AgentNames == {"default", "helper"}
Endpoints == {"/chat/stream", "/chat"}
RequestIds == 1 .. MaxRequests
NoRequest == [state |-> "none", endpoint |-> "", agent_name |-> ""]

\* a turn of a request that has not called chat_stream yet
NoCoTurn == [pc |-> "idle", calls |-> << >>, cached |-> {}, done |-> 0]

\* the requests whose handler is iterating the chat_stream of the agent
TurnsInProgress(name) ==
  {r \in RequestIds :
     requests[r].state = "in_turn" /\ requests[r].agent_name = name}

\* a step of the server touches neither a turn's state nor a batch
ServerFrame == UNCHANGED <<turnVars, batchVars, jsonVars, coturns, authors>>

\* create_agent, lines 104-121
CreateAgent(name) ==
  /\ name \notin agents
  /\ agents' = agents \cup {name}
  /\ UNCHANGED requests
  /\ ServerFrame

\* stream_chat lines 138-147, chat lines 205-210: the agent is looked up;
\* a name that is not in agents is answered with an HTTP error
RequestArrives(r, endpoint, name) ==
  /\ requests[r].state = "none"
  /\ requests' =
       [requests EXCEPT ![r] =
          [state |-> IF name \in agents THEN "accepted" ELSE "rejected",
           endpoint |-> endpoint, agent_name |-> name]]
  /\ UNCHANGED agents
  /\ ServerFrame

\* stream_chat line 157, chat line 217: the handler starts to iterate
\* agent.chat_stream; nothing looks at the other requests
TurnBegins(r) ==
  /\ requests[r].state = "accepted"
  /\ requests' = [requests EXCEPT ![r].state = "in_turn"]
  /\ UNCHANGED agents
  /\ ServerFrame

\* stream_chat lines 173-188, chat lines 240-249: chat_stream is over
TurnEnds(r) ==
  /\ requests[r].state = "in_turn"
  /\ requests' = [requests EXCEPT ![r].state = "responded"]
  /\ UNCHANGED agents
  /\ ServerFrame

\* the response has been sent
ResponseSent(r) ==
  /\ requests[r].state \in {"responded", "rejected"}
  /\ requests' = [requests EXCEPT ![r] = NoRequest]
  /\ UNCHANGED agents
  /\ ServerFrame

(***************************************************************************)
(* The specification.                                                      *)
(***************************************************************************)
\* the steps of a turn that has started
RunStep ==
  \/ InitialStreamOpened
  \/ InitialStreamOpenFails
  \/ RecvContent
  \/ \E d \in ToolCallDeltas : RecvToolCallDelta(d)
  \/ EagerToolReturns
  \/ InitialStreamFails
  \/ StreamEnds
  \/ DrainCached
  \/ DrainDispatch
  \/ DrainToolReturns
  \/ FinalStreamOpened
  \/ FinalStreamOpenFails
  \/ FinalContent
  \/ \E d \in ToolCallDeltas : FinalToolCallDelta(d)
  \/ FinalStreamFails
  \/ FinalStreamEnds

TurnStep ==
  \/ RunStep
  \/ RequestDone

\* no batch runs
BatchIdle ==
  /\ batch_pc = "idle"
  /\ batch_mode = "sequential"
  /\ batch_calls = << >>
  /\ tasks = NoTasks
  /\ finished = << >>
  /\ batch_results = << >>

\* lifespan, lines 37-46: the default agent is there; no request yet
InitServer ==
  /\ agents = {"default"}
  /\ requests = [r \in RequestIds |-> NoRequest]
  /\ coturns = [r \in RequestIds |-> NoCoTurn]
  /\ authors = << >>

\* no argument buffer has been looked at
InitJson ==
  /\ json_str = << >>
  /\ fragments = 0
  /\ asked = FALSE
  /\ answer = FALSE

Init ==
  /\ InitTurn
  /\ remembering = FALSE
  /\ max_parallel_tools = DefaultMaxParallelTools
  /\ sync_tools = {}
  /\ BatchIdle
  /\ InitServer
  /\ InitJson

\* turns run one after the other on the one agent
Next ==
  \/ \E m \in Messages, r \in BOOLEAN, p \in BOOLEAN : StartTurn(m, r, p)
  \/ TurnStep

Spec == Init /\ [][Next]_vars

\* the first turn of a fresh agent, and nothing after it
StartFirstTurn(message, reset_history, parallel_tools) ==
  /\ turns = 0
  /\ StartTurn(message, reset_history, parallel_tools)

NextFirstTurn ==
  \/ \E m \in Messages, r \in BOOLEAN, p \in BOOLEAN : StartFirstTurn(m, r, p)
  \/ TurnStep

SpecFirstTurn == Init /\ [][NextFirstTurn]_vars

(***************************************************************************)
(* chat_stream called again with reset_history set, the same message and   *)
(* parallel_tools at its default, against a transport and tools that do    *)
(* the second time what they did the first time.  The call before is       *)
(* remembered when its response is over; each call has its own budget of   *)
(* deltas.                                                                 *)
(***************************************************************************)
RequestDoneRemembered ==
  /\ pc \in {"completed", "failed"}
  /\ pc' = "idle"
  /\ previous' = [known |-> TRUE, message |-> turnStart.message,
                  inputs |-> inputs, events |-> events,
                  log |-> conversation_history]
  /\ events' = << >>
  /\ deltaNo' = 0
  /\ deltas' = 0
  /\ executions' = << >>
  /\ firstComplete' = NoCompletions
  /\ turnStart' = NoTurn
  /\ historyAtRaise' = << >>
  /\ streamsOpened' = 0
  /\ inputs' = << >>
  /\ UNCHANGED <<conversation_history, locals, turns, remembering>>
  /\ UNCHANGED <<batchVars, serverVars, jsonVars>>

\* the transport and the tools are deterministic: what they do in this call
\* is what they did in the call before, as far as that went
Replays ==
  previous.known =>
    /\ Len(inputs') <= Len(previous.inputs)
    /\ inputs' = SubSeq(previous.inputs, 1, Len(inputs'))

StartAgain(message) ==
  /\ previous.known => message = previous.message
  /\ StartTurn(message, TRUE, TRUE)

NextRepeat ==
  \/ \E m \in Messages : StartAgain(m)
  \/ InitialStreamOpened /\ Replays
  \/ InitialStreamOpenFails /\ Replays
  \/ RecvContent /\ Replays
  \/ (\E d \in ToolCallDeltas : RecvToolCallDelta(d)) /\ Replays
  \/ EagerToolReturns /\ Replays
  \/ InitialStreamFails /\ Replays
  \/ StreamEnds /\ Replays
  \/ DrainCached /\ Replays
  \/ DrainDispatch /\ Replays
  \/ DrainToolReturns /\ Replays
  \/ FinalStreamOpened /\ Replays
  \/ FinalStreamOpenFails /\ Replays
  \/ FinalContent /\ Replays
  \/ (\E d \in ToolCallDeltas : FinalToolCallDelta(d)) /\ Replays
  \/ FinalStreamFails /\ Replays
  \/ FinalStreamEnds /\ Replays
  \/ RequestDoneRemembered

InitRepeat ==
  /\ InitTurn
  /\ remembering = TRUE
  /\ max_parallel_tools = DefaultMaxParallelTools
  /\ sync_tools = {}
  /\ BatchIdle
  /\ InitServer
  /\ InitJson

SpecRepeat == InitRepeat /\ [][NextRepeat]_vars

\* batches of tool calls on an agent built with some max_parallel_tools
InitBatch ==
  /\ InitTurn
  /\ remembering = FALSE
  /\ max_parallel_tools \in ParallelLimits
  /\ sync_tools = {}
  /\ BatchIdle
  /\ InitServer
  /\ InitJson

NextBatch ==
  \/ /\ batch_pc = "idle"
     /\ \E calls \in Batches, mode \in Modes : StartBatch(calls, mode)
  \/ \E i \in DOMAIN tasks : ParallelTaskBegins(i)
  \/ \E i \in DOMAIN tasks : ParallelTaskEnds(i)
  \/ GatherReturns
  \/ BatchTimeout
  \/ \E i \in DOMAIN tasks : SequentialCallBegins(i)
  \/ \E i \in DOMAIN tasks : SequentialCallEnds(i)
  \/ SequentialReturns
  \/ BatchDone

SpecBatch == InitBatch /\ [][NextBatch]_vars

\* the event loop runs what can run, and the deadline passes
FairSpecBatch == SpecBatch /\ WF_vars(NextBatch)

\* batches of any call objects on an agent with any registered callables:
\* calls without an id, tools that are ordinary functions
InitAnyBatch ==
  /\ InitTurn
  /\ remembering = FALSE
  /\ max_parallel_tools = DefaultMaxParallelTools
  /\ sync_tools \in SUBSET tool_functions
  /\ BatchIdle
  /\ InitServer
  /\ InitJson

NextAnyBatch ==
  \/ /\ batch_pc = "idle"
     /\ \E calls \in AnyBatches, mode \in Modes : StartBatch(calls, mode)
  \/ \E i \in DOMAIN tasks : ParallelTaskBegins(i)
  \/ \E i \in DOMAIN tasks : ParallelTaskEnds(i)
  \/ GatherReturns
  \/ BatchTimeout
  \/ \E i \in DOMAIN tasks : AbandonedToolEnds(i)
  \/ \E i \in DOMAIN tasks : SequentialCallBegins(i)
  \/ \E i \in DOMAIN tasks : SequentialCallEnds(i)
  \/ SequentialReturns
  \/ BatchDone

SpecAnyBatch == InitAnyBatch /\ [][NextAnyBatch]_vars

\* the server and its chat requests
NextServer ==
  \/ \E name \in AgentNames : CreateAgent(name)
  \/ \E r \in RequestIds, endpoint \in Endpoints, name \in AgentNames :
       RequestArrives(r, endpoint, name)
  \/ \E r \in RequestIds : TurnBegins(r)
  \/ \E r \in RequestIds : TurnEnds(r)
  \/ \E r \in RequestIds : ResponseSent(r)

SpecServer == Init /\ [][NextServer]_vars

(***************************************************************************)
(* Two requests for the same agent name: stream_chat (app.py, lines        *)
(* 134-161) hands both the same StreamingAgent, and each iterates its own  *)
(* chat_stream on the one event loop.  A step is the code a turn runs      *)
(* between two awaits; self.conversation_history is the one log of both.   *)
(***************************************************************************)
\* the j-th call of a final call list
SharedCall(j) ==
  [id |-> "call_" \o ToString(j), type |-> "function", name |-> "search_web",
   arguments |-> <<"{", "}">>]
SharedCalls(n) == [j \in 1 .. n |-> SharedCall(j)]

\* lines 370-373: the first call at or after position j whose id is not in
\* tool_results, or one past the list
NextUncached(turn, j) ==
  LET rest == {k \in j .. Len(turn.calls) : k \notin turn.cached} IN
  IF rest = {} THEN Len(turn.calls) + 1
  ELSE CHOOSE k \in rest : \A l \in rest : k <= l

\* lines 370-417 between two awaits: the tool messages of the calls from
\* position j up to the next call that has to be executed
CachedToolMessages(turn, j) ==
  [k \in 1 .. NextUncached(turn, j) - j |->
     ToolMessage(turn.calls[j + k - 1].id, "result")]

\* the log and its authors after request r has appended messages
AppendedBy(r, messages) ==
  /\ conversation_history' = conversation_history \o messages
  /\ authors' = authors \o [k \in 1 .. Len(messages) |-> r]

\* the turn goes on to the next await: the tool of the next call that is
\* not cached (line 395), or the final stream (line 430)
SuspendsAfter(r, turn, j) ==
  LET stop == NextUncached(turn, j) IN
  coturns' = [coturns EXCEPT ![r] =
                [turn EXCEPT !.done = stop - 1,
                             !.pc = IF stop <= Len(turn.calls)
                                      THEN "drain_exec"
                                      ELSE "final_streaming"]]

SharedFrame ==
  UNCHANGED <<pc, locals, events, counters, ghosts, previous, remembering,
              batchVars, jsonVars, agents, requests>>

\* chat_stream line 465 up to the await of line 240: _prepare_conversation
\* on the log of the agent, emptied (a new list) when reset_history is set
CoTurnStarts(r, message, reset_history) ==
  /\ coturns[r].pc = "idle"
  /\ conversation_history' =
       _prepare_conversation(conversation_history, message, reset_history)
  /\ authors' =
       [k \in 1 .. Len(conversation_history') |->
          IF ~reset_history /\ k <= Len(authors) THEN authors[k] ELSE r]
  /\ coturns' = [coturns EXCEPT ![r].pc = "streaming"]
  /\ SharedFrame

\* the initial stream ends with a final list of n calls, those at the
\* positions in cached executed while it streamed: without calls the
\* assistant message is appended (lines 486-490); with calls the assistant
\* message with the list (lines 363-368) and the tool messages of the
\* cached calls up to the first call to execute
CoStreamEnds(r, n, cached) ==
  /\ coturns[r].pc = "streaming"
  /\ cached \subseteq 1 .. n
  /\ IF n = 0
       THEN /\ AppendedBy(r, <<Message("assistant", ContentOf(r))>>)
            /\ coturns' = [coturns EXCEPT ![r].pc = "completed"]
       ELSE LET turn == [coturns[r] EXCEPT !.calls = SharedCalls(n),
                                           !.cached = cached] IN
            /\ AppendedBy(r, <<AssistantToolCalls(<< >>, turn.calls)>>
                               \o CachedToolMessages(turn, 1))
            /\ SuspendsAfter(r, turn, 1)
  /\ SharedFrame

\* lines 395-417: the awaited tool returns; its tool message is appended,
\* and those of the cached calls after it
CoToolReturns(r) ==
  /\ coturns[r].pc = "drain_exec"
  /\ LET turn == coturns[r]
         j == turn.done + 1 IN
     /\ AppendedBy(r, <<ToolMessage(turn.calls[j].id, "result")>>
                        \o CachedToolMessages(turn, j + 1))
     /\ SuspendsAfter(r, turn, j + 1)
  /\ SharedFrame

\* lines 431-448: the final stream ends, the assistant message is appended
CoFinalStreamEnds(r) ==
  /\ coturns[r].pc = "final_streaming"
  /\ AppendedBy(r, <<Message("assistant", ContentOf(r))>>)
  /\ coturns' = [coturns EXCEPT ![r].pc = "completed"]
  /\ SharedFrame

NextShared ==
  \/ \E r \in RequestIds, message \in Messages, reset_history \in BOOLEAN :
       CoTurnStarts(r, message, reset_history)
  \/ \E r \in RequestIds, n \in 0 .. MaxBatch, cached \in SUBSET (1 .. MaxBatch) :
       CoStreamEnds(r, n, cached)
  \/ \E r \in RequestIds : CoToolReturns(r)
  \/ \E r \in RequestIds : CoFinalStreamEnds(r)

SpecShared == Init /\ [][NextShared]_vars

(***************************************************************************)
(* _is_json_complete on an argument buffer that grows fragment by fragment *)
(* (_call_llm, lines 281-291).                                             *)
(***************************************************************************)
\* the pieces of text a buffer is made of: punctuation, a string, a digit,
\* a blank, a quote on its own
JsonFragments ==
  {<<"{">>, <<"}">>, <<":">>, <<Quote, "a", Quote>>, <<"1">>, <<" ">>,
   <<Quote>>}

\* line 285: the buffer gets the next fragment
BufferGrows(fragment) ==
  /\ fragments < MaxFragments
  /\ fragments' = fragments + 1
  /\ json_str' = json_str \o fragment
  /\ asked' = FALSE
  /\ answer' = FALSE
  /\ UNCHANGED <<turnVars, batchVars, serverVars>>

\* line 291: self._is_json_complete(arguments)
IsJsonCompleteCalled ==
  /\ answer' = _is_json_complete(json_str)
  /\ asked' = TRUE
  /\ UNCHANGED <<json_str, fragments, turnVars, batchVars, serverVars>>

NextJson ==
  \/ \E fragment \in JsonFragments : BufferGrows(fragment)
  \/ IsJsonCompleteCalled

SpecJson == Init /\ [][NextJson]_vars

(***************************************************************************)
(* Properties.                                                             *)
(***************************************************************************)
\* the executions of a slot's tool so far in the turn
ExecutionsOf(slot) ==
  {i \in 1 .. Len(executions) : executions[i].index = slot}
\* those of them dispatched while the initial stream was read
EagerExecutionsOf(slot) ==
  {i \in ExecutionsOf(slot) : executions[i].phase = "streaming"}
EagerExecutions ==
  {i \in 1 .. Len(executions) : executions[i].phase = "streaming"}
EventsOfType(type) ==
  {i \in 1 .. Len(events) : events[i].event_type = type}

\* C1: once the loop over the final call list is over, the tool of every
\* slot in the list has been executed exactly once in the turn, during
\* streaming or during draining, never both and never neither.
C1_EachListedSlotExecutedOnce ==
  Drained =>
    \A j \in 1 .. Len(valid_tool_calls) :
      Cardinality(ExecutionsOf(ValidSlots(tool_calls_by_index)[j])) = 1

\* C2: after draining, every assistant message with tool calls in the log
\* is followed by exactly one tool message per call, and these tool messages
\* carry pairwise distinct, non-empty ids that occur in the tool calls.
C2_OneToolMessagePerCall ==
  (Drained \/ pc \in {"final_streaming", "completed", "failed", "idle"}) =>
    \A k \in 1 .. Len(conversation_history) :
      LET h == conversation_history
          n == Len(h[k].tool_calls)
          ids == {h[k].tool_calls[j].id : j \in 1 .. n}
      IN (h[k].role = "assistant" /\ n > 0) =>
           /\ k + n <= Len(h)
           /\ \A j \in 1 .. n :
                /\ h[k + j].role = "tool"
                /\ h[k + j].tool_call_id # ""
                /\ h[k + j].tool_call_id \in ids
           /\ \A i, j \in 1 .. n :
                i # j => h[k + i].tool_call_id # h[k + j].tool_call_id
           /\ (k + n < Len(h) => h[k + n + 1].role # "tool")

\* C3: no exception leaves chat_stream, whatever the transport and the
\* tools do: the turn never ends by raising to its caller.
C3_NoExceptionLeavesTheTurn == pc # "failed"

\* C4: no reachable state of a turn waits forever on a tool execution: a
\* turn that awaits a tool can always take a further step.
C4_NoTurnWaitsForeverOnATool ==
  pc \in {"eager_exec", "drain_exec"} => ENABLED TurnStep

\* C5: when the transport fails, the request has sent exactly one error
\* event, it is the last event and no completion event is sent, and the
\* log is the log as it was when the transport failed.
C5_OneErrorEventAndLogUntouched ==
  pc = "failed" =>
    /\ Cardinality(EventsOfType("error")) = 1
    /\ events[Len(events)].event_type = "error"
    /\ EventsOfType("chat_complete") = {}
    /\ conversation_history = historyAtRaise

\* the final stream fails after a tool message was appended
C5_Witness ==
  /\ pc = "failed"
  /\ \E k \in 1 .. Len(conversation_history) :
       conversation_history[k].role = "tool"
  /\ EventsOfType("tool_result") # {}

\* C6: within the initial stream a slot is dispatched (its tool_call event
\* sent, its tool started) at most once: once, at the first delta after
\* which its id and name are non-empty and its arguments are complete JSON,
\* if there is such a delta, and never otherwise.
C6_ReadyOnceAtFirstCompleteDelta ==
  \A slot \in Slots :
    IF slot \in DOMAIN firstComplete
      THEN /\ Cardinality(EagerExecutionsOf(slot)) = 1
           /\ \A i \in EagerExecutionsOf(slot) :
                /\ executions[i].at = firstComplete[slot]
                /\ CallComplete(executions[i].call)
                /\ \E e \in EventsOfType("tool_call") :
                     /\ events[e].at = executions[i].at
                     /\ events[e].id = executions[i].call.id
      ELSE EagerExecutionsOf(slot) = {}

\* a later delta has changed the id of a slot that was dispatched at its
\* first delta, and the slot was not dispatched again
C6_Witness ==
  /\ pc = "streaming"
  /\ deltaNo = 2
  /\ \E slot \in executed_tool_calls :
       /\ firstComplete[slot] = 1
       /\ \A i \in EagerExecutionsOf(slot) :
            executions[i].call.id # tool_calls_by_index[slot].id

\* C7 as stated: when the initial stream has ended, the number of eager
\* dispatches equals the number of distinct slots the deltas named.
C7_ReadyCountEqualsSlotCount ==
  pc = "draining" =>
    Cardinality(EagerExecutions) = Cardinality(DOMAIN tool_calls_by_index)

\* C7, amended: the number of eager dispatches equals the number of slots
\* that were complete after one of their deltas, which is at most the
\* number of distinct slots.
C7_ReadyCountEqualsCompleteSlotCount ==
  pc \in {"streaming", "draining"} =>
    /\ Cardinality(EagerExecutions) = Cardinality(DOMAIN firstComplete)
    /\ DOMAIN firstComplete \subseteq DOMAIN tool_calls_by_index
    /\ Cardinality(EagerExecutions) <= Cardinality(DOMAIN tool_calls_by_index)

\* the stream named two slots and one of them was never complete
C7_Witness ==
  /\ pc = "draining"
  /\ Cardinality(DOMAIN tool_calls_by_index) = 2
  /\ Cardinality(EagerExecutions) = 1

\* C8: within one turn no two tool_result events carry the same id.
C8_OneToolResultPerId ==
  \A i, j \in EventsOfType("tool_result") :
    i # j => events[i].id # events[j].id

NoToolTurnCompleted == pc = "completed" /\ ToolCallsCount(events) = 0
\* its events: content events, then one completion event that counts 0
NoToolTurnEvents ==
  /\ Len(events) >= 1
  /\ \A i \in 1 .. Len(events) - 1 : events[i].event_type = "content"
  /\ events[Len(events)].event_type = "chat_complete"
  /\ events[Len(events)].count = 0

\* C10 as stated: a turn without tool calls sends content events and one
\* completion event counting 0, and the log gains exactly 2 messages, the
\* user message and the assistant message with the concatenated content.
C10_NoToolTurnAddsTwoMessages ==
  NoToolTurnCompleted =>
    /\ NoToolTurnEvents
    /\ conversation_history =
         turnStart.log \o <<Message("user", turnStart.message),
                            Message("assistant", FullResponse(events))>>

\* C10, amended: the log after the turn is the log the turn started from,
\* or the system message alone when that log was empty or was reset,
\* followed by the user message and the assistant message.
C10_NoToolTurnLog ==
  NoToolTurnCompleted =>
    /\ NoToolTurnEvents
    /\ conversation_history =
         (IF turnStart.reset_history \/ turnStart.log = << >>
            THEN <<Message("system", Instructions)>>
          ELSE turnStart.log)
         \o <<Message("user", turnStart.message),
              Message("assistant", FullResponse(events))>>

\* a turn without tool calls, with content, that reset a log that was not
\* empty
C10_Witness ==
  /\ NoToolTurnCompleted
  /\ turnStart.log # << >>
  /\ turnStart.reset_history
  /\ EventsOfType("content") # {}
  /\ Len(conversation_history) = 3

\* the batch has returned because the deadline passed
BatchTimedOut ==
  /\ batch_pc = "returned"
  /\ \E i \in DOMAIN tasks : tasks[i].state \in {"cancelled", "abandoned"}

\* C11: a batch returns one result per call, and the i-th result is the
\* i-th call's: it carries that call's id and is what that call's coroutine
\* returned, or the timeout report, in parallel and in sequential mode and
\* whatever the order in which the calls completed.
C11_OneResultPerCallInCallOrder ==
  batch_pc = "returned" =>
    /\ Len(batch_results) = Len(batch_calls)
    /\ \A i \in 1 .. Len(batch_calls) :
         /\ batch_results[i].id = batch_calls[i].id
         /\ \/ /\ BatchTimedOut
               /\ batch_results[i].result = "Timeout after"
               /\ ~batch_results[i].success
            \/ /\ tasks[i].state = "done"
               /\ batch_results[i].result = tasks[i].result
               /\ batch_results[i].success = tasks[i].success

\* a parallel batch of two calls with different ids has returned, and the
\* second call completed before the first
C11_Witness ==
  /\ batch_pc = "returned"
  /\ batch_mode = "parallel"
  /\ finished = <<2, 1>>
  /\ batch_calls[1].id # batch_calls[2].id
  /\ batch_results[1].success
  /\ ~batch_results[2].success

\* C12: when the deadline of a parallel batch has passed, a call that had
\* completed before keeps its result and its success flag in the returned
\* list, and only the calls that were outstanding are reported as timed out.
C12_CompletedCallsKeepTheirResults ==
  BatchTimedOut =>
    \A i \in 1 .. Len(batch_calls) :
      IF tasks[i].state = "done"
        THEN /\ batch_results[i].result = tasks[i].result
             /\ batch_results[i].success = tasks[i].success
      ELSE /\ batch_results[i].result = "Timeout after"
           /\ ~batch_results[i].success

\* C13: a parallel batch with a call whose tool does not return is over
\* once the deadline has passed: it returns, and the list it returns
\* reports that call as failed with the timeout message.
C13_ParallelBatchReturnsAtDeadline ==
  (/\ batch_pc = "running"
   /\ batch_mode = "parallel"
   /\ \E i \in DOMAIN tasks : tasks[i].state = "running" /\ tasks[i].hangs)
  ~> (/\ batch_pc = "returned"
      /\ \A i \in DOMAIN tasks :
           tasks[i].hangs =>
             /\ batch_results[i].result = "Timeout after"
             /\ ~batch_results[i].success)

\* a parallel batch of one call whose tool did not return has returned
C13_Witness ==
  /\ BatchTimedOut
  /\ Len(batch_calls) = 1
  /\ tasks[1].hangs
  /\ batch_results[1].result = "Timeout after"

\* a call's own result is in its place in the returned list
OwnResult(i) ==
  /\ i \in DOMAIN batch_results
  /\ tasks[i].state = "done"
  /\ batch_results[i].id = batch_calls[i].id
  /\ batch_results[i].result = tasks[i].result
  /\ batch_results[i].success = tasks[i].success
\* the calls of a batch whose arguments are not JSON, whose name is not
\* registered, whose tool body raised
UnparseableCall(i) ==
  batch_calls[i].name # "" /\ ~JsonParses(batch_calls[i].arguments)
UnknownCall(i) ==
  batch_calls[i].name # "" /\ batch_calls[i].name \notin tool_functions

C16_InFlightWithinLimit ==
  Cardinality(InFlight(tasks)) <= max_parallel_tools

\* C15: the parallel_tools flag of the turn selects how its tool calls are
\* executed: through the parallel batch when it is set, one at a time
\* otherwise.
C15_ParallelToolsSelectsMode ==
  pc \in {"eager_exec", "drain_exec"} =>
    IF turnStart.parallel_tools
      THEN batch_pc = "running" /\ batch_mode = "parallel"
    ELSE batch_pc = "idle" \/ batch_mode = "sequential"

\* C17: no two requests are iterating the chat_stream of the same agent at
\* the same time.
C17_OneTurnPerAgent ==
  \A name \in AgentNames : Cardinality(TurnsInProgress(name)) <= 1

IsPrefix(a, b) == Len(a) <= Len(b) /\ SubSeq(b, 1, Len(a)) = a

\* C18: in every step the log before is a prefix of the log after, except
\* in the step that starts a turn with reset_history.
C18_LogAppendOnly ==
  [][\/ IsPrefix(conversation_history, conversation_history')
     \/ /\ pc = "idle"
        /\ pc' = "open_initial"
        /\ turnStart'.reset_history]_vars

\* a second turn without reset_history has completed with tool messages,
\* on a log that was not empty
C18_Witness ==
  /\ turns = 2
  /\ pc = "completed"
  /\ ~turnStart.reset_history
  /\ Len(turnStart.log) > 2
  /\ Len(conversation_history) > Len(turnStart.log) + 2
  /\ IsPrefix(turnStart.log, conversation_history)

\* C19: a log that is not empty has exactly one system message, its first
\* message; and a turn started with reset_history has the log
\* [system, user] when it opens the model stream.
C19_OneSystemMessageFirst ==
  /\ conversation_history # << >> =>
       /\ conversation_history[1].role = "system"
       /\ \A k \in 2 .. Len(conversation_history) :
            conversation_history[k].role # "system"
  /\ (pc = "open_initial" /\ turnStart.reset_history) =>
       conversation_history =
         <<Message("system", Instructions),
           Message("user", turnStart.message)>>

\* a second turn has reset a log that held a completed turn
C19_Witness ==
  /\ turns = 2
  /\ pc = "open_initial"
  /\ turnStart.reset_history
  /\ Len(turnStart.log) > 2
  /\ Len(conversation_history) = 2

ToolEvents(evs) ==
  {i \in 1 .. Len(evs) : evs[i].event_type \in {"tool_call", "tool_result"}}

\* C20: a turn asks for at most two model streams, and once the final
\* stream is open no tool is executed, no tool_call or tool_result event is
\* sent, the assembled calls do not change and the turn only ends.
C20_SingleRoundTrip ==
  /\ [](streamsOpened <= 2)
  /\ [][pc = "final_streaming" =>
          /\ executions' = executions
          /\ Cardinality(ToolEvents(events')) = Cardinality(ToolEvents(events))
          /\ pc' \in {"final_streaming", "completed", "failed"}
          /\ pc' = "final_streaming" =>
               /\ tool_calls_by_index' = tool_calls_by_index
               /\ valid_tool_calls' = valid_tool_calls
               /\ awaited' = NoAwait]_vars

\* a tool-call delta has arrived on the final stream
C20_Witness ==
  /\ pc = "final_streaming"
  /\ streamsOpened = 2
  /\ deltaNo = 2
  /\ executions # << >>
  /\ \A i \in 1 .. Len(executions) : executions[i].at = 1
  /\ \A i \in 1 .. Len(events) : events[i].at = 1

\* C21: when chat_stream is called with reset_history set after a call with
\* reset_history set and the same message, and the transport and the tools
\* do what they did in the call before, then the events sent are, at every
\* moment, the events the call before had sent at that moment, and once the
\* call is over the events and the log are those of the call before.
C21_ResetTurnRepeats ==
  (previous.known /\ pc # "idle") =>
    /\ turnStart.reset_history
    /\ turnStart.message = previous.message
    /\ IsPrefix(inputs, previous.inputs)
    /\ IsPrefix(events, previous.events)
    /\ IsPrefix(conversation_history, previous.log)
    /\ pc \in {"completed", "failed"} =>
         /\ inputs = previous.inputs
         /\ events = previous.events
         /\ conversation_history = previous.log

\* the second call is over; it ran a tool and the final stream had content
C21_Witness ==
  /\ previous.known
  /\ pc = "completed"
  /\ turns = 2
  /\ EventsOfType("tool_result") # {}
  /\ Len(conversation_history) = 5
  /\ conversation_history[5].content # << >>

\* C22: once a turn has completed without a transport error, every
\* tool_result event it sent has, in the log, a tool message with the
\* event's id whose content is the event's result text.
C22_ToolResultEventsAreLogged ==
  pc = "completed" =>
    \A i \in 1 .. Len(events) :
      events[i].event_type = "tool_result" =>
        \E k \in 1 .. Len(conversation_history) :
          /\ conversation_history[k].role = "tool"
          /\ conversation_history[k].tool_call_id = events[i].id
          /\ conversation_history[k].content = events[i].result

\* C23: a sequential batch with a call whose tool does not return is over
\* once the deadline has passed: it returns, and the list it returns reports
\* that call, and every call not yet run, as failed with the timeout message.
C23_SequentialBatchReturnsAtDeadline ==
  (/\ batch_pc = "running"
   /\ batch_mode = "sequential"
   /\ \E i \in DOMAIN tasks : tasks[i].state = "running" /\ tasks[i].hangs)
  ~> (/\ batch_pc = "returned"
      /\ \A i \in DOMAIN tasks :
           (tasks[i].hangs \/ tasks[i].state = "scheduled") =>
             /\ batch_results[i].result = "Timeout after"
             /\ ~batch_results[i].success)

\* the log as _prepare_conversation left it when the turn started: it ends
\* with the turn's user message
PreparedLog ==
  _prepare_conversation(turnStart.log, turnStart.message,
                        turnStart.reset_history)
\* the turn has a final call list and has appended its assistant message
InToolTurn ==
  \/ pc \in {"draining", "drain_exec", "final_streaming"}
  \/ pc = "completed" /\ Len(conversation_history) > Len(PreparedLog) + 1

\* C24: in a turn whose final call list has k >= 1 calls, the log is the log
\* the turn started with up to its user message, then one assistant message
\* carrying the whole final call list (the eagerly executed calls included),
\* then one tool message per call drained so far, the j-th referencing the
\* id of the j-th call; it has exactly k tool messages when the final stream
\* is opened, and at the end of the turn one more message, an assistant
\* message with the content of the final stream.
C24_ToolTurnLog ==
  InToolTurn =>
    LET p == Len(PreparedLog)
        h == conversation_history
        calls == h[p + 1].tool_calls
        k == Len(calls)
        n == Len(h) - (p + 1)
    IN /\ SubSeq(h, 1, p) = PreparedLog
       /\ h[p].role = "user"
       /\ h[p + 1].role = "assistant"
       /\ k >= 1
       /\ pc \in {"draining", "drain_exec"} =>
            /\ calls = valid_tool_calls
            /\ calls = ValidToolCalls(tool_calls_by_index)
            /\ \A e \in EagerExecutions :
                 \E j \in 1 .. k :
                   ValidSlots(tool_calls_by_index)[j] = executions[e].index
            /\ n = drain_i - 1
            /\ n <= k
       /\ pc = "final_streaming" => n = k
       /\ pc = "completed" =>
            /\ n = k + 1
            /\ h[Len(h)].role = "assistant"
            /\ h[Len(h)].tool_calls = << >>
            /\ FullResponse(events) = h[p + 1].content \o h[Len(h)].content
       /\ \A j \in 1 .. k :
            j <= n =>
              /\ h[p + 1 + j].role = "tool"
              /\ h[p + 1 + j].tool_call_id = calls[j].id

\* a turn with two calls, the first executed during streaming and the
\* second during draining, has ended
C24_Witness ==
  /\ pc = "completed"
  /\ Len(conversation_history) = Len(PreparedLog) + 4
  /\ Len(executions) = 2
  /\ executions[1].phase = "streaming"
  /\ executions[2].phase = "draining"
  /\ executions[1].index # executions[2].index

\* C25: a slot that was executed during streaming keeps receiving argument
\* fragments, so the arguments it was executed with are a prefix of, and may
\* differ from, the argument buffer of its call in the final call list and
\* in the assistant message; as long as the call has the id it was executed
\* under, its tool is not executed again and its tool message is the cached
\* result of that execution.
C25_CachedResultOfAnEarlierBuffer ==
  pc \in {"draining", "drain_exec"} =>
    \A j \in 1 .. Len(valid_tool_calls) :
      LET slot == ValidSlots(tool_calls_by_index)[j]
          tc == valid_tool_calls[j]
          p == Len(PreparedLog)
      IN \A e \in EagerExecutionsOf(slot) :
           /\ IsPrefix(executions[e].call.arguments, tc.arguments)
           /\ conversation_history[p + 1].tool_calls[j].arguments =
                tc.arguments
           /\ (executions[e].call.id = tc.id /\ j < drain_i) =>
                /\ ExecutionsOf(slot) = {e}
                /\ tc.id \in DOMAIN tool_results
                /\ conversation_history[p + 1 + j] =
                     ToolMessage(tc.id, tool_results[tc.id].result)

\* the loop over the final call list is over; the one call of the list was
\* executed during streaming with arguments that are not the arguments
\* recorded for it in the assistant message, and its tool message is the
\* result of that execution
C25_Witness ==
  /\ Drained
  /\ Len(valid_tool_calls) = 1
  /\ Len(executions) = 1
  /\ executions[1].phase = "streaming"
  /\ executions[1].call.id = valid_tool_calls[1].id
  /\ LET p == Len(PreparedLog) IN
       /\ executions[1].call.arguments #
            conversation_history[p + 1].tool_calls[1].arguments
       /\ \E i \in EventsOfType("tool_result") :
            conversation_history[p + 2] =
              ToolMessage(executions[1].call.id, events[i].result)

\* the slots whose name and whose argument buffer are not empty
KeptSlots ==
  {s \in DOMAIN tool_calls_by_index :
     /\ tool_calls_by_index[s].name # ""
     /\ tool_calls_by_index[s].arguments # << >>}
\* the j-th of them in increasing order
KeptSlot(j) ==
  CHOOSE s \in KeptSlots : Cardinality({t \in KeptSlots : t < s}) = j - 1

\* C26: the final call list holds exactly the slots whose name and argument
\* buffer are not empty, in increasing slot order; a slot without a name or
\* without arguments has no tool execution, and there are as many tool_call
\* events as executions, so it has no event either; when the initial stream
\* ends with no such slot the turn ends there as a turn without tool calls,
\* with the assistant message of the initial content and the completion
\* event, and otherwise it goes on to drain the list.
C26_FinalCallListIsTheFilteredSlots ==
  /\ [](/\ \A s \in DOMAIN tool_calls_by_index \ KeptSlots :
             ExecutionsOf(s) = {}
        /\ Cardinality(EventsOfType("tool_call")) = Len(executions)
        /\ Cardinality(EventsOfType("tool_result")) <= Len(executions)
        /\ pc \in {"draining", "drain_exec"} =>
             /\ Len(valid_tool_calls) = Cardinality(KeptSlots)
             /\ \A j \in 1 .. Len(valid_tool_calls) :
                  valid_tool_calls[j] = tool_calls_by_index[KeptSlot(j)])
  /\ [][(pc = "streaming" /\ pc' \notin {"streaming", "eager_exec", "failed"})
          => IF KeptSlots = {}
               THEN /\ pc' = "completed"
                    /\ conversation_history' =
                         Append(conversation_history,
                                Message("assistant", full_content))
                    /\ events' = Append(events,
                                        ChatCompleteEvent(events, deltaNo))
                    /\ executions' = executions
               ELSE pc' = "draining"]_vars

\* the list is being drained: slot 0 has a name and no arguments and is not
\* in the list, slot 1 is
C26_Witness ==
  /\ pc = "draining"
  /\ DOMAIN tool_calls_by_index = {0, 1}
  /\ tool_calls_by_index[0].name # ""
  /\ tool_calls_by_index[0].arguments = << >>
  /\ Len(valid_tool_calls) = 1
  /\ valid_tool_calls[1] = tool_calls_by_index[1]

\* C27: once a batch has returned its timeout results, no tool body of the
\* batch is still executing, whether the tool is a coroutine function or a
\* function run in a thread of the executor.
C27_NoToolRunsAfterTheTimeout ==
  BatchTimedOut => InFlight(tasks) \cup Abandoned(tasks) = {}

\* C28: in the list a batch returns, the result of a call that has an id
\* carries that id, whether the call succeeded, failed, raised or was
\* reported as timed out; a result identified by its position, "tool_"
\* followed by the call's position counted from 0, is the result of a call
\* without an id, in a batch that timed out; in a batch that did not, the
\* result of a call without an id carries the id _execute_tool gives it.
C28_ResultsCarryTheCallId ==
  batch_pc = "returned" =>
    \A i \in 1 .. Len(batch_results) :
      LET positional == "tool_" \o ToString(i - 1) IN
      /\ batch_calls[i].id # NoId =>
           batch_results[i].id = batch_calls[i].id
      /\ batch_results[i].id = positional => batch_calls[i].id = NoId
      /\ batch_calls[i].id = NoId =>
           batch_results[i].id =
             IF BatchTimedOut THEN positional ELSE "unknown_tool_id"

\* a parallel batch has timed out: its first call has an id and had failed
\* before the deadline, its second call has no id
C28_Witness ==
  /\ BatchTimedOut
  /\ Len(batch_calls) = 2
  /\ batch_calls[1].id = "a"
  /\ tasks[1].state = "done"
  /\ ~tasks[1].success
  /\ batch_calls[2].id = NoId
  /\ batch_results[2].id = "tool_1"

\* C29: every content delta is sent as one content event when it arrives, in
\* the order of the deltas: at every moment the concatenation of the content
\* events sent so far is the content accumulated so far, and the content
\* events sent during a model stream concatenate to the content of the
\* assistant message appended for that stream.
C29_ContentEventsAreTheMessageContent ==
  LET p == Len(PreparedLog)
      h == conversation_history
      sent == FullResponse(events)
  IN /\ pc \in {"streaming", "eager_exec"} => sent = full_content
     /\ pc \in {"draining", "drain_exec"} => sent = h[p + 1].content
     /\ pc = "final_streaming" => sent = h[p + 1].content \o final_content
     /\ pc = "completed" =>
          /\ h[p + 1].role = "assistant"
          /\ h[Len(h)].role = "assistant"
          /\ sent = IF Len(h) = p + 1 THEN h[p + 1].content
                    ELSE h[p + 1].content \o h[Len(h)].content
     /\ \A i \in EventsOfType("content") :
          /\ events[i].content = ContentOf(events[i].at)
          /\ \A j \in EventsOfType("content") :
               i < j => events[i].at < events[j].at

\* a turn has ended whose initial stream had a tool call and no content and
\* whose final stream had content
C29_Witness ==
  /\ pc = "completed"
  /\ Len(conversation_history) = Len(PreparedLog) + 3
  /\ conversation_history[Len(PreparedLog) + 1].content = << >>
  /\ conversation_history[Len(PreparedLog) + 3].content # << >>
  /\ EventsOfType("content") # {}

\* C30: while a turn runs, the assembled calls change only when a delta of
\* the initial stream is merged, and then every slot stays, its argument
\* buffer is a prefix of its new argument buffer, an id or a name that was
\* not empty is not empty afterwards, and at most one slot is new or changed.
C30_SlotsOnlyGrow ==
  [][pc' \notin {"completed", "failed", "idle"} =>
       /\ pc # "streaming" => tool_calls_by_index' = tool_calls_by_index
       /\ DOMAIN tool_calls_by_index \subseteq DOMAIN tool_calls_by_index'
       /\ \A s \in DOMAIN tool_calls_by_index :
            /\ IsPrefix(tool_calls_by_index[s].arguments,
                        tool_calls_by_index'[s].arguments)
            /\ tool_calls_by_index[s].id # "" =>
                 tool_calls_by_index'[s].id # ""
            /\ tool_calls_by_index[s].name # "" =>
                 tool_calls_by_index'[s].name # ""
       /\ Cardinality({s \in DOMAIN tool_calls_by_index' :
                         \/ s \notin DOMAIN tool_calls_by_index
                         \/ tool_calls_by_index'[s] #
                              tool_calls_by_index[s]}) <= 1]_vars

\* slot 0 was assembled from two deltas and became complete with the second
C30_Witness ==
  /\ pc = "eager_exec"
  /\ deltaNo = 2
  /\ DOMAIN tool_calls_by_index = {0}
  /\ tool_calls_by_index[0].arguments = <<"{", "}">>
  /\ tool_calls_by_index[0].id = "a"
  /\ 0 \in DOMAIN firstComplete
  /\ firstComplete[0] = 2

\* the tokens of a text: "S" for a string, "N" for a run of digits, the
\* punctuation as it is, "?" for a string that is not closed; blanks
\* outside of strings separate tokens and are dropped
RECURSIVE Lex(_, _)
Lex(s, i) ==
  IF i > Len(s) THEN << >>
  ELSE IF s[i] = " " THEN Lex(s, i + 1)
  ELSE IF s[i] = Quote THEN
    LET closing == {j \in i + 1 .. Len(s) : s[j] = Quote} IN
    IF closing = {} THEN <<"?">>
    ELSE <<"S">> \o Lex(s, (CHOOSE j \in closing :
                              \A k \in closing : j <= k) + 1)
  ELSE IF s[i] = "1" THEN
    LET stops == {j \in i + 1 .. Len(s) + 1 : j > Len(s) \/ s[j] # "1"} IN
    <<"N">> \o Lex(s, CHOOSE j \in stops : \A k \in stops : j <= k)
  ELSE <<s[i]>> \o Lex(s, i + 1)

\* one object whose members are values is replaced by the value "O"
RECURSIVE Reduced(_)
Reduced(toks) ==
  LET Value == {"S", "N", "O"}
      empties == {i \in 1 .. Len(toks) - 1 :
                    toks[i] = "{" /\ toks[i + 1] = "}"}
      singles == {i \in 1 .. Len(toks) - 4 :
                    /\ toks[i] = "{"
                    /\ toks[i + 1] = "S"
                    /\ toks[i + 2] = ":"
                    /\ toks[i + 3] \in Value
                    /\ toks[i + 4] = "}"}
  IN IF empties # {}
       THEN LET i == CHOOSE x \in empties : TRUE IN
            Reduced(SubSeq(toks, 1, i - 1) \o <<"O">>
                      \o SubSeq(toks, i + 2, Len(toks)))
     ELSE IF singles # {}
       THEN LET i == CHOOSE x \in singles : TRUE IN
            Reduced(SubSeq(toks, 1, i - 1) \o <<"O">>
                      \o SubSeq(toks, i + 5, Len(toks)))
     ELSE toks

\* the text is one JSON value: its tokens reduce to a single value
IsOneJsonValue(s) ==
  LET r == Reduced(Lex(s, 1)) IN Len(r) = 1 /\ r[1] \in {"S", "N", "O"}

\* C31: _is_json_complete answers FALSE for the empty text and for a text of
\* blanks only, and otherwise TRUE exactly when the whole buffer is one JSON
\* value; "{" gives FALSE, "{}" and {"a":1} give TRUE; a text that gives TRUE
\* parses to a value whose text parses to the same value; a call changes
\* nothing of the agent nor the buffer, and a second call on the same buffer
\* gives the same answer.
C31_IsCompleteIffOneJsonValue ==
  /\ [](asked =>
          /\ answer = IsOneJsonValue(json_str)
          /\ (json_str = << >> \/ \A i \in 1 .. Len(json_str) :
                                    json_str[i] = " ") => ~answer
          /\ json_str = <<"{">> => ~answer
          /\ json_str = <<"{", "}">> => answer
          /\ json_str = <<"{", Quote, "a", Quote, ":", "1", "}">> => answer
          /\ answer =>
               /\ JsonParses(JsonLoads(json_str))
               /\ JsonLoads(JsonLoads(json_str)) = JsonLoads(json_str))
  /\ [][json_str' = json_str =>
          /\ UNCHANGED <<turnVars, batchVars, serverVars>>
          /\ asked => (asked' /\ answer' = answer)]_vars

\* _is_json_complete was called on {"a":1} and answered TRUE
C31_Witness ==
  /\ asked
  /\ answer
  /\ json_str = <<"{", Quote, "a", Quote, ":", "1", "}">>

\* C32: in the events of a turn, what follows a tool_call event is the
\* tool_result event with the same id, for a call executed during streaming
\* and for one executed during draining; a tool_call event is the last
\* event only while its tool is being awaited; and every tool_result event
\* directly follows the tool_call event with its id.
C32_ToolResultFollowsToolCall ==
  \A i \in 1 .. Len(events) :
    /\ events[i].event_type = "tool_call" =>
         IF i < Len(events)
           THEN /\ events[i + 1].event_type = "tool_result"
                /\ events[i + 1].id = events[i].id
         ELSE /\ pc \in {"eager_exec", "drain_exec"}
              /\ awaited.call.id = events[i].id
    /\ events[i].event_type = "tool_result" =>
         /\ i > 1
         /\ events[i - 1].event_type = "tool_call"
         /\ events[i - 1].id = events[i].id

\* a turn has ended in which one call was executed during streaming and
\* another, with another id, during draining
C32_Witness ==
  /\ pc = "completed"
  /\ Len(events) = 5
  /\ events[1].event_type = "tool_call"
  /\ events[3].event_type = "tool_call"
  /\ events[1].id # events[3].id
  /\ executions[1].phase = "streaming"
  /\ executions[2].phase = "draining"

\* C33: a slot dispatched during streaming has a name and arguments from
\* then on, so it is in the final call list and in the tool_calls of the
\* assistant message; in the log of a turn that has completed, the assistant
\* message has a call for every execution of the turn, with the name the
\* tool was executed under and arguments that begin with the executed ones.
C33_ExecutedSlotsAreListed ==
  /\ executed_tool_calls \subseteq KeptSlots
  /\ \A e \in EagerExecutions : pc \notin {"completed", "failed"} =>
       executions[e].index \in KeptSlots
  /\ pc \in {"draining", "drain_exec"} =>
       /\ \A s \in executed_tool_calls :
            \E j \in 1 .. Len(valid_tool_calls) :
              /\ KeptSlot(j) = s
              /\ conversation_history[Len(PreparedLog) + 1].tool_calls[j] =
                   tool_calls_by_index[s]
  /\ (pc = "completed" /\ executions # << >>) =>
       LET m == conversation_history[Len(PreparedLog) + 1] IN
       /\ m.role = "assistant"
       /\ Len(m.tool_calls) >=
            Cardinality({executions[e].index : e \in 1 .. Len(executions)})
       /\ \A e \in 1 .. Len(executions) :
            \E j \in 1 .. Len(m.tool_calls) :
              /\ m.tool_calls[j].name = executions[e].call.name
              /\ IsPrefix(executions[e].call.arguments,
                          m.tool_calls[j].arguments)

\* the list is being drained: slot 1 was executed during streaming and is
\* the one call of the list, slot 0 has no name and is not in it
C33_Witness ==
  /\ pc = "draining"
  /\ executed_tool_calls = {1}
  /\ DOMAIN tool_calls_by_index = {0, 1}
  /\ tool_calls_by_index[0].name = ""
  /\ Len(valid_tool_calls) = 1
  /\ conversation_history[Len(PreparedLog) + 1].tool_calls =
       <<tool_calls_by_index[1]>>

\* C34: when the transport fails while the initial stream is opened or read,
\* the log at the end of the turn is the log the turn found (emptied when
\* reset_history is set), then the system message if that was empty, then
\* the user message of the turn, however many tools were executed and
\* reported during the stream; the failed turn leaves neither an assistant
\* message nor a tool message.
C34_InitialFailureLeavesPreparedLog ==
  (pc = "failed" /\ streamsOpened = 1) =>
    LET base == IF turnStart.reset_history THEN << >> ELSE turnStart.log
        start == IF base = << >>
                   THEN <<Message("system", Instructions)>> ELSE base
        h == conversation_history
    IN /\ h = Append(start, Message("user", turnStart.message))
       /\ \A k \in Len(base) + 1 .. Len(h) :
            h[k].role \notin {"assistant", "tool"}

\* the initial stream of a turn on a log that was kept fails after a tool
\* was executed and its result reported
C34_Witness ==
  /\ pc = "failed"
  /\ streamsOpened = 1
  /\ ~turnStart.reset_history
  /\ turnStart.log # << >>
  /\ EagerExecutions # {}
  /\ EventsOfType("tool_result") # {}
  /\ conversation_history[Len(conversation_history)].role = "user"

\* C35: with the turns of an agent run one at a time, the log never has two
\* user messages next to each other, and whenever the agent is idle a log
\* that is not empty ends with an assistant message, also after a turn that
\* a transport failure ended.
C35_NoAdjacentUsersAndIdleEndsWithAssistant ==
  LET h == conversation_history IN
  /\ \A k \in 1 .. Len(h) - 1 :
       ~(h[k].role = "user" /\ h[k + 1].role = "user")
  /\ (pc = "idle" /\ h # << >>) => h[Len(h)].role = "assistant"

\* C36: while two turns run on the same agent, a turn that has appended its
\* assistant message with the call list still has that message in the log
\* of the agent, and the tool messages it has appended so far follow it
\* directly, in the order of the list, with no message of the other turn
\* among them; a reset_history of the other turn neither removes them nor
\* makes later ones go elsewhere.
C36_BatchContiguousUnderConcurrency ==
  \A r \in RequestIds :
    coturns[r].pc \in {"drain_exec", "final_streaming"} =>
      \E k \in 1 .. Len(conversation_history) :
        /\ authors[k] = r
        /\ conversation_history[k] =
             AssistantToolCalls(<< >>, coturns[r].calls)
        /\ k + coturns[r].done <= Len(conversation_history)
        /\ \A j \in 1 .. coturns[r].done :
             /\ authors[k + j] = r
             /\ conversation_history[k + j] =
                  ToolMessage(coturns[r].calls[j].id, "result")

\* C37: the events sent for a request end with exactly one terminal event,
\* chat_complete when chat_stream was exhausted without an exception and
\* error with the code STREAM_ERROR when it raised; the two never occur
\* together, a request that is over has one of them, and a terminal event
\* is never followed by another event.
C37_ExactlyOneTerminalEventLast ==
  LET terminal == {i \in 1 .. Len(events) :
                     events[i].event_type \in {"chat_complete", "error"}}
  IN /\ terminal \subseteq {Len(events)}
     /\ pc \in {"completed", "failed"} <=> terminal # {}
     /\ pc = "completed" =>
          /\ events # << >>
          /\ events[Len(events)].event_type = "chat_complete"
     /\ pc = "failed" =>
          /\ events # << >>
          /\ events[Len(events)].event_type = "error"
          /\ events[Len(events)].result = "STREAM_ERROR"

\* the initial stream fails after content was sent: the error event is the
\* last of at least two events
C37_Witness ==
  /\ pc = "failed"
  /\ streamsOpened = 1
  /\ Len(events) >= 2
  /\ events[1].event_type = "content"
  /\ events[Len(events)].event_type = "error"
  /\ EventsOfType("chat_complete") = {}

\* C38: in the chat_complete event of a turn, total_tool_calls is the number
\* of tool_call events of the turn and final_response is the content of all
\* its content events, of the initial and of the final stream, in order;
\* total_tool_calls is also the number of tool messages the turn appended
\* to the log.
C38_CompletionCountsEventsAndToolMessages ==
  pc = "completed" =>
    LET last == events[Len(events)]
        sent == SubSeq(events, 1, Len(events) - 1)
        h == conversation_history
    IN /\ last.event_type = "chat_complete"
       /\ last.count = Cardinality(EventsOfType("tool_call"))
       /\ last.content = FullResponse(sent)
       /\ last.count =
            Cardinality({k \in Len(PreparedLog) + 1 .. Len(h) :
                           h[k].role = "tool"})

\* C39: once the final call list has been drained, every call of the list
\* whose slot was not dispatched during streaming has been dispatched in
\* the drain loop: it has a tool_call event, which carries the raw argument
\* text when the arguments do not parse; in that case the tool_result event
\* that follows reports a failure and the tool message of the call holds
\* the error text of that result.
C39_UndispatchedCallsAreDrained ==
  pc = "final_streaming" =>
    \A j \in 1 .. Len(valid_tool_calls) :
      KeptSlot(j) \notin executed_tool_calls =>
        LET tc == valid_tool_calls[j]
            h == conversation_history
        IN /\ \E e \in 1 .. Len(executions) :
                /\ executions[e].phase = "draining"
                /\ executions[e].index = KeptSlot(j)
           /\ \E i \in 1 .. Len(events) - 1 :
                /\ events[i].event_type = "tool_call"
                /\ events[i].id = tc.id
                /\ events[i].function = tc.name
                /\ events[i].arguments = EventArguments(tc.arguments)
                /\ ~JsonParses(tc.arguments) =>
                     /\ events[i].arguments = tc.arguments
                     /\ events[i + 1].event_type = "tool_result"
                     /\ events[i + 1].id = tc.id
                     /\ ~events[i + 1].success
                     /\ h[Len(PreparedLog) + 1 + j] =
                          ToolMessage(tc.id, events[i + 1].result)

=============================================================================
